---- MODULE Spec2Model ----
(***************************************************************************)
(* create_template.py: main() validates the command line arguments and     *)
(* create_template() drives the `qm` tool through a table of seven steps.  *)
(*                                                                         *)
(* Text is modelled as a sequence of tokens (TLA+ strings): a literal      *)
(* piece of a Python string is one token, a formatted integer is one token *)
(* per character of str(n), a VM name is one token per character and a     *)
(* path is its components separated by "/" tokens.  Concatenation is \o.   *)
(***************************************************************************)
EXTENDS Integers, Sequences, FiniteSets, TLC

\* ------------------------------------------------------------------ bounds
MaxVlan == 10
MaxStatus == 2
MaxRuns == 2

\* ------------------------------------------------------- text conversions
Digits == <<"0", "1", "2", "3", "4", "5", "6", "7", "8", "9">>

RECURSIVE NatStr(_)
NatStr(n) == IF n < 10 THEN <<Digits[n + 1]>>
             ELSE NatStr(n \div 10) \o <<Digits[(n % 10) + 1]>>

\* str(n) for a Python int
Str(n) == IF n < 0 THEN <<"-">> \o NatStr(0 - n) ELSE NatStr(n)

\* Python truthiness of an int and of a str / list
TruthyInt(n) == n # 0
TruthySeq(s) == Len(s) # 0

\* mutant: only a leading space is looked for
ContainsSpaceLeading(name) == Len(name) > 0 /\ name[1] = " "

\* `" " in name`
ContainsSpace(name) == \E k \in 1..Len(name) : name[k] = " "

\* ------------------------------------------------------------- os.path
isabs(p) == Len(p) > 0 /\ p[1] = "/"

join(a, b) == IF isabs(b) THEN b
              ELSE IF Len(a) = 0 \/ a[Len(a)] = "/" THEN a \o b
              ELSE a \o <<"/">> \o b

RECURSIVE basename(_)
basename(p) == IF Len(p) = 0 \/ p[Len(p)] = "/" THEN <<>>
               ELSE basename(SubSeq(p, 1, Len(p) - 1)) \o <<p[Len(p)]>>

iso_dir == <<"/", "var", "/", "lib", "/", "vz", "/", "template", "/", "iso">>
snippets_dir == <<"/", "var", "/", "lib", "/", "vz", "/", "snippets">>
getcwd == <<"/", "root">>

\* ------------------------------------------------------------ the inputs
VmIds == {9001, 9002}
VmNames == {<<"t", "m", "p", "l">>, <<"a", " ", "b">>, <<"a", "\t", "b">>}
Vlans == (0 - 1)..MaxVlan
Cinits == {<<>>, <<"user.yaml">>}
IsoArgs == {<<"x.iso">>, <<"/", "mnt", "/", "x.iso">>}
Files == {join(getcwd, <<"x.iso">>), <<"/", "mnt", "/", "x.iso">>,
          join(iso_dir, <<"x.iso">>), join(snippets_dir, <<"user.yaml">>)}

\* defaults of the optional arguments that the model does not vary
DefaultMemory == 2046
DefaultCores == 2
DefaultOstype == <<"l26">>

VARIABLES args, fs, pc, steps, idx, pbar, log, invoked, exc, retval, exit_code,
          argv, run, vm, vm0

vars == <<args, fs, pc, steps, idx, pbar, log, invoked, exc, retval, exit_code,
          argv, run, vm, vm0>>

NoExc == [cls |-> "none", cmd |-> <<>>, status |-> 0]
NoBar == [n |-> 0, total |-> 0, closed |-> TRUE]

\* the VM of the given id at the hypervisor: absent
NoVm == [exists |-> FALSE, applied |-> <<>>, template |-> FALSE]

exists(p) == p \in fs

Info(msg) == [level |-> "INFO", msg |-> msg]
Error(msg) == [level |-> "ERROR", msg |-> msg]

\* the state after parser.parse_args()
Init ==
    /\ args \in [vmid : VmIds, name : VmNames, vlan : Vlans,
                 memory : {DefaultMemory}, cores : {DefaultCores},
                 cinit : Cinits, iso : IsoArgs, ostype : {DefaultOstype}]
    /\ fs \in SUBSET Files
    /\ pc = "check_name"
    /\ steps = <<>>
    /\ idx = 0
    /\ pbar = NoBar
    /\ log = <<>>
    /\ invoked = <<>>
    /\ exc = NoExc
    /\ retval = "unset"
    /\ exit_code = -1
    /\ argv = args
    /\ run = 1
    /\ vm = NoVm
    /\ vm0 = NoVm

\* ------------------------------------------------------------------ main
\* sys.exit(): SystemExit(None), exit status 0
sys_exit_noarg == 0

main_check_name ==
    /\ pc = "check_name"
    /\ IF ContainsSpace(args.name)
       THEN /\ log' = Append(log, Error(<<"VM name contains spaces. Please use a name without spaces.">>))
            /\ pc' = "exited"
            /\ exit_code' = sys_exit_noarg
       ELSE /\ pc' = "abs_iso"
            /\ UNCHANGED <<log, exit_code>>
    /\ UNCHANGED <<args, fs, steps, idx, pbar, invoked, exc, retval, argv, run, vm, vm0>>

main_abs_iso ==
    /\ pc = "abs_iso"
    /\ IF ~isabs(args.iso)
       THEN LET p == join(getcwd, args.iso) IN
            /\ args' = [args EXCEPT !.iso = p]
            /\ log' = Append(log, Info(<<"Converted ISO path to absolute path: ">> \o p))
       ELSE UNCHANGED <<args, log>>
    /\ pc' = "check_iso"
    /\ UNCHANGED <<fs, steps, idx, pbar, invoked, exc, retval, exit_code, argv, run, vm, vm0>>

\* mutant: the file in the ISO directory is used without looking for it
main_check_iso_unchecked ==
    /\ pc = "check_iso"
    /\ IF ~exists(args.iso)
       THEN LET iso_file_in_dir == join(iso_dir, basename(args.iso))
                l1 == Append(log, Info(<<"ISO file not found in current directory, checking ">> \o iso_dir))
            IN /\ args' = [args EXCEPT !.iso = iso_file_in_dir]
               /\ log' = Append(l1, Info(<<"ISO file found in ">> \o iso_dir \o <<", using path: ">> \o iso_file_in_dir))
       ELSE UNCHANGED <<args, log>>
    /\ pc' = "check_cinit"
    /\ UNCHANGED <<fs, steps, idx, pbar, invoked, exc, retval, exit_code, argv, run, vm, vm0>>

main_check_iso ==
    /\ pc = "check_iso"
    /\ IF ~exists(args.iso)
       THEN LET iso_file_in_dir == join(iso_dir, basename(args.iso))
                l1 == Append(log, Info(<<"ISO file not found in current directory, checking ">> \o iso_dir))
            IN IF exists(iso_file_in_dir)
               THEN /\ args' = [args EXCEPT !.iso = iso_file_in_dir]
                    /\ log' = Append(l1, Info(<<"ISO file found in ">> \o iso_dir \o <<", using path: ">> \o iso_file_in_dir))
                    /\ pc' = "check_cinit"
                    /\ UNCHANGED exit_code
               ELSE /\ log' = Append(l1, Error(<<"The ISO file must be located in the current directory or '">> \o iso_dir \o <<"'">>))
                    /\ pc' = "exited"
                    /\ exit_code' = 1
                    /\ UNCHANGED args
       ELSE /\ pc' = "check_cinit"
            /\ UNCHANGED <<args, log, exit_code>>
    /\ UNCHANGED <<fs, steps, idx, pbar, invoked, exc, retval, argv, run, vm, vm0>>

main_check_cinit ==
    /\ pc = "check_cinit"
    /\ IF TruthySeq(args.cinit) /\ ~exists(join(snippets_dir, args.cinit))
       THEN /\ log' = Append(log, Error(<<"The Cloud-Init file '">> \o args.cinit \o <<"' does not exist in '">> \o snippets_dir \o <<"'">>))
            /\ pc' = "exited"
            /\ exit_code' = 1
       ELSE /\ pc' = "call"
            /\ UNCHANGED <<log, exit_code>>
    /\ UNCHANGED <<args, fs, steps, idx, pbar, invoked, exc, retval, argv, run, vm, vm0>>

main_call ==
    /\ pc = "call"
    /\ pc' = "build_steps"
    /\ UNCHANGED <<args, fs, steps, idx, pbar, log, invoked, exc, retval, exit_code,
                    argv, run, vm, vm0>>

\* ------------------------------------------------------- the step table
Lit(s) == <<s>>

\* mutant: the tag is added for positive VLAN ids only
Net0ArgPositive(vm_vlan) ==
    <<"virtio,bridge=vmbr0">> \o (IF vm_vlan > 0 THEN <<",tag=">> \o Str(vm_vlan) ELSE <<>>)

Net0Arg(vm_vlan) ==
    <<"virtio,bridge=vmbr0">> \o (IF TruthyInt(vm_vlan) THEN <<",tag=">> \o Str(vm_vlan) ELSE <<>>)

\* mutant: the command is built whether or not a snippet was given
CicustomCmdAlways(vm_id, cinit) ==
    <<Lit("qm"), Lit("set"), Str(vm_id), Lit("--cicustom"), <<"user=local:snippets/">> \o cinit>>

CicustomCmd(vm_id, cinit) ==
    IF TruthySeq(cinit)
    THEN <<Lit("qm"), Lit("set"), Str(vm_id), Lit("--cicustom"), <<"user=local:snippets/">> \o cinit>>
    ELSE <<>>

CreatingVM(vm_id, vm_name, ostype) ==
    [desc |-> "Creating VM",
     cmd |-> <<Lit("qm"), Lit("create"), Str(vm_id), Lit("--name"), vm_name,
               Lit("--ostype"), ostype, Lit("--tablet"), Lit("0")>>]

\* mutant: the VLAN id is put where the VM id belongs
ConfiguringNetworkSwapped(vm_id, vm_vlan, mem, cores) ==
    [desc |-> "Configuring Network",
     cmd |-> <<Lit("qm"), Lit("set"), Str(vm_vlan), Lit("--net0"), Net0Arg(vm_vlan),
               Lit("--memory"), Str(mem), Lit("--cores"), Str(cores),
               Lit("--cpu"), Lit("host")>>]

ConfiguringNetwork(vm_id, vm_vlan, mem, cores) ==
    [desc |-> "Configuring Network",
     cmd |-> <<Lit("qm"), Lit("set"), Str(vm_id), Lit("--net0"), Net0Arg(vm_vlan),
               Lit("--memory"), Str(mem), Lit("--cores"), Str(cores),
               Lit("--cpu"), Lit("host")>>]

SettingISO(vm_id, iso_file) ==
    [desc |-> "Setting ISO",
     cmd |-> <<Lit("qm"), Lit("set"), Str(vm_id), Lit("--scsi0"),
               <<"local-lvm:0,import-from=">> \o iso_file \o <<",discard=on,ssd=1">> >>]

ConfiguringBoot(vm_id) ==
    [desc |-> "Configuring Boot",
     cmd |-> <<Lit("qm"), Lit("set"), Str(vm_id), Lit("--boot"), Lit("order=scsi0"),
               Lit("--scsihw"), Lit("virtio-scsi-single"),
               Lit("--agent"), Lit("enabled=1,fstrim_cloned_disks=1")>>]

ConfiguringCloudInit(vm_id) ==
    [desc |-> "Configuring Cloud-Init",
     cmd |-> <<Lit("qm"), Lit("set"), Str(vm_id), Lit("--ide2"), Lit("local-lvm:cloudinit"),
               Lit("--ipconfig0"), Lit("ip=dhcp")>>]

SettingCloudInitCustomization(vm_id, cinit) ==
    [desc |-> "Setting Cloud-Init Customization", cmd |-> CicustomCmd(vm_id, cinit)]

CreatingTemplate(vm_id) ==
    [desc |-> "Creating Template", cmd |-> <<Lit("qm"), Lit("template"), Str(vm_id)>>]

\* mutant: the optional step is left out of the table when it has no command
StepTableNoSlot(vm_id, vm_name, vm_vlan, mem, cores, cinit, iso_file, ostype) ==
    << CreatingVM(vm_id, vm_name, ostype),
       ConfiguringNetwork(vm_id, vm_vlan, mem, cores),
       SettingISO(vm_id, iso_file),
       ConfiguringBoot(vm_id),
       ConfiguringCloudInit(vm_id) >>
    \o (IF TruthySeq(cinit) THEN <<SettingCloudInitCustomization(vm_id, cinit)>> ELSE <<>>)
    \o << CreatingTemplate(vm_id) >>

StepTable(vm_id, vm_name, vm_vlan, mem, cores, cinit, iso_file, ostype) ==
    << CreatingVM(vm_id, vm_name, ostype),
       ConfiguringNetwork(vm_id, vm_vlan, mem, cores),
       SettingISO(vm_id, iso_file),
       ConfiguringBoot(vm_id),
       ConfiguringCloudInit(vm_id),
       SettingCloudInitCustomization(vm_id, cinit),
       CreatingTemplate(vm_id) >>

\* ------------------------------------------- exceptions of check_call
\* the classes subprocess.check_call can raise here, with their bases
Bases(cls) ==
    CASE cls = "CalledProcessError" -> {"CalledProcessError", "SubprocessError", "Exception", "BaseException"}
      [] cls = "FileNotFoundError" -> {"FileNotFoundError", "OSError", "Exception", "BaseException"}
      [] cls = "PermissionError" -> {"PermissionError", "OSError", "Exception", "BaseException"}
      [] cls = "OSError" -> {"OSError", "Exception", "BaseException"}
      [] cls = "KeyboardInterrupt" -> {"KeyboardInterrupt", "BaseException"}
      [] OTHER -> {}

IsInstance(e, cls) == cls \in Bases(e.cls)

\* what check_call(cmd) can raise: a non-zero exit status, the executable not
\* found, found but not executable, any other OS error, an interrupt
Raised(cmd) ==
    {[cls |-> "CalledProcessError", cmd |-> cmd, status |-> s] : s \in 1..MaxStatus}
    \cup {[cls |-> c, cmd |-> cmd, status |-> 0] :
             c \in {"FileNotFoundError", "PermissionError", "OSError", "KeyboardInterrupt"}}

RECURSIVE Flatten(_)
Flatten(cmd) == IF Len(cmd) = 0 THEN <<>>
                ELSE cmd[1] \o (IF Len(cmd) > 1 THEN <<" ">> ELSE <<>>) \o Flatten(Tail(cmd))

\* str(e)
ExcStr(e) ==
    CASE e.cls = "CalledProcessError" ->
           <<"Command '">> \o Flatten(e.cmd) \o <<"' returned non-zero exit status ">>
             \o Str(e.status) \o <<".">>
      [] e.cls = "FileNotFoundError" ->
           <<"[Errno 2] No such file or directory: '">> \o e.cmd[1] \o <<"'">>
      [] e.cls = "PermissionError" ->
           <<"[Errno 13] Permission denied: '">> \o e.cmd[1] \o <<"'">>
      [] e.cls = "OSError" -> <<"[Errno 12] Cannot allocate memory">>
      [] OTHER -> <<>>

\* mutant: the catch-all clause comes first
HandlerCatchAllFirst(e) ==
    IF IsInstance(e, "Exception") THEN "Exception"
    ELSE IF IsInstance(e, "CalledProcessError") THEN "CalledProcessError"
    ELSE IF IsInstance(e, "FileNotFoundError") THEN "FileNotFoundError"
    ELSE "unhandled"

\* the except clause that takes e: the first one, in source order, e is an
\* instance of
Handler(e) ==
    IF IsInstance(e, "CalledProcessError") THEN "CalledProcessError"
    ELSE IF IsInstance(e, "FileNotFoundError") THEN "FileNotFoundError"
    ELSE IF IsInstance(e, "Exception") THEN "Exception"
    ELSE "unhandled"

\* --------------------------------------------------------- the qm tool
\* what the tool can carry out: `create` needs the id to be free, the other
\* subcommands need the VM to be there
QmAccepts(cmd, v) == IF cmd[2] = <<"create">> THEN ~v.exists ELSE v.exists

\* the effect of a command that exits 0
QmApply(cmd, v) ==
    [exists |-> TRUE,
     applied |-> Append(v.applied, cmd),
     template |-> v.template \/ cmd[2] = <<"template">>]

\* ------------------------------------------------------- create_template
ct_build_steps ==
    /\ pc = "build_steps"
    /\ steps' = StepTable(args.vmid, args.name, args.vlan, args.memory, args.cores,
                          args.cinit, args.iso, args.ostype)
    /\ pc' = "tqdm"
    /\ UNCHANGED <<args, fs, idx, pbar, log, invoked, exc, retval, exit_code, argv, run, vm, vm0>>

\* with tqdm(total=len(steps), ...) as pbar
ct_tqdm ==
    /\ pc = "tqdm"
    /\ pbar' = [n |-> 0, total |-> Len(steps), closed |-> FALSE]
    /\ idx' = 1
    /\ pc' = "for"
    /\ UNCHANGED <<args, fs, steps, log, invoked, exc, retval, exit_code, argv, run, vm, vm0>>

\* mutant: pbar.update(1) is inside the `if cmd:` block
ct_for_update_in_if ==
    /\ pc = "for"
    /\ IF idx > Len(steps)
       THEN /\ pbar' = [pbar EXCEPT !.closed = TRUE]
            /\ pc' = "log_success"
            /\ UNCHANGED idx
       ELSE IF TruthySeq(steps[idx].cmd)
       THEN /\ pc' = "log_step"
            /\ UNCHANGED <<pbar, idx>>
       ELSE /\ pc' = "for"
            /\ idx' = idx + 1
            /\ UNCHANGED pbar
    /\ UNCHANGED <<args, fs, steps, log, invoked, exc, retval, exit_code, argv, run, vm, vm0>>

\* for desc, cmd in steps: if cmd:
ct_for ==
    /\ pc = "for"
    /\ IF idx > Len(steps)
       THEN /\ pbar' = [pbar EXCEPT !.closed = TRUE]
            /\ pc' = "log_success"
       ELSE /\ pc' = IF TruthySeq(steps[idx].cmd) THEN "log_step" ELSE "update"
            /\ UNCHANGED pbar
    /\ UNCHANGED <<args, fs, steps, idx, log, invoked, exc, retval, exit_code, argv, run, vm, vm0>>

ct_log_step ==
    /\ pc = "log_step"
    /\ log' = Append(log, Info(<<steps[idx].desc>> \o <<" for VM ID ">> \o Str(args.vmid)))
    /\ pc' = "check_call"
    /\ UNCHANGED <<args, fs, steps, idx, pbar, invoked, exc, retval, exit_code, argv, run, vm, vm0>>

\* subprocess.check_call(cmd): the command is launched
ct_check_call ==
    /\ pc = "check_call"
    /\ invoked' = Append(invoked, [step |-> idx, cmd |-> steps[idx].cmd, result |-> "running"])
    /\ pc' = "wait"
    /\ UNCHANGED <<args, fs, steps, idx, pbar, log, exc, retval, exit_code, argv, run, vm, vm0>>

\* check_call returns 0
ct_call_returns ==
    /\ pc = "wait"
    /\ QmAccepts(steps[idx].cmd, vm)
    /\ vm' = QmApply(steps[idx].cmd, vm)
    /\ invoked' = [invoked EXCEPT ![Len(invoked)].result = "ok"]
    /\ pc' = "update"
    /\ UNCHANGED <<args, fs, steps, idx, pbar, log, exc, retval, exit_code, argv, run, vm0>>

\* mutant: the failure is swallowed inside the loop, which goes on
ct_call_raises_continue ==
    /\ pc = "wait"
    /\ \E e \in Raised(steps[idx].cmd) :
          /\ exc' = e
          /\ invoked' = [invoked EXCEPT ![Len(invoked)].result = e.cls]
    /\ pc' = "update"
    /\ UNCHANGED <<args, fs, steps, idx, pbar, log, retval, exit_code, argv, run, vm, vm0>>

\* mutant: the bar is advanced for the failed step too
ct_call_raises_counted ==
    /\ pc = "wait"
    /\ \E e \in Raised(steps[idx].cmd) :
          /\ exc' = e
          /\ invoked' = [invoked EXCEPT ![Len(invoked)].result = e.cls]
    /\ pbar' = [pbar EXCEPT !.n = pbar.n + 1, !.closed = TRUE]
    /\ pc' = "except"
    /\ UNCHANGED <<args, fs, steps, idx, log, retval, exit_code, argv, run, vm, vm0>>

\* mutant: on a failure `qm destroy` is run, which removes the VM
ct_call_raises_rollback ==
    /\ pc = "wait"
    /\ \E e \in Raised(steps[idx].cmd) :
          /\ exc' = e
          /\ invoked' = Append([invoked EXCEPT ![Len(invoked)].result = e.cls],
                               [step |-> idx, result |-> "ok",
                                cmd |-> <<Lit("qm"), Lit("destroy"), Str(args.vmid)>>])
    /\ pbar' = [pbar EXCEPT !.closed = TRUE]
    /\ vm' = NoVm
    /\ pc' = "except"
    /\ UNCHANGED <<args, fs, steps, idx, log, retval, exit_code, argv, run, vm0>>

\* check_call raises: the with block is left, the exception reaches the
\* except clauses
ct_call_raises ==
    /\ pc = "wait"
    /\ \E e \in Raised(steps[idx].cmd) :
          /\ exc' = e
          /\ invoked' = [invoked EXCEPT ![Len(invoked)].result = e.cls]
    /\ pbar' = [pbar EXCEPT !.closed = TRUE]
    /\ pc' = "except"
    /\ UNCHANGED <<args, fs, steps, idx, log, retval, exit_code, argv, run, vm, vm0>>

\* pbar.update(1)
ct_update ==
    /\ pc = "update"
    /\ pbar' = [pbar EXCEPT !.n = pbar.n + 1]
    /\ idx' = idx + 1
    /\ pc' = "for"
    /\ UNCHANGED <<args, fs, steps, log, invoked, exc, retval, exit_code, argv, run, vm, vm0>>

ct_log_success ==
    /\ pc = "log_success"
    /\ log' = Append(log, Info(<<"Template creation for VM ID ">> \o Str(args.vmid)
                                 \o <<" completed successfully">>))
    /\ pc' = "return"
    /\ UNCHANGED <<args, fs, steps, idx, pbar, invoked, exc, retval, exit_code, argv, run, vm, vm0>>

\* mutant: the handler cleans up with `qm destroy`, which removes the VM
ct_except_CalledProcessError_cleanup ==
    /\ pc = "except"
    /\ Handler(exc) = "CalledProcessError"
    /\ log' = Append(log, Error(<<"An error occurred while creating the template: ">> \o ExcStr(exc)))
    /\ invoked' = Append(invoked, [step |-> idx, result |-> "ok",
                                   cmd |-> <<Lit("qm"), Lit("destroy"), Str(args.vmid)>>])
    /\ vm' = NoVm
    /\ pc' = "return"
    /\ UNCHANGED <<args, fs, steps, idx, pbar, exc, retval, exit_code, argv, run, vm0>>

\* mutant: the exception is left out of the message
ct_except_CalledProcessError_bare ==
    /\ pc = "except"
    /\ Handler(exc) = "CalledProcessError"
    /\ log' = Append(log, Error(<<"An error occurred while creating the template: ">>))
    /\ pc' = "return"
    /\ UNCHANGED <<args, fs, steps, idx, pbar, invoked, exc, retval, exit_code,
                    argv, run, vm, vm0>>

ct_except_CalledProcessError ==
    /\ pc = "except"
    /\ Handler(exc) = "CalledProcessError"
    /\ log' = Append(log, Error(<<"An error occurred while creating the template: ">> \o ExcStr(exc)))
    /\ pc' = "return"
    /\ UNCHANGED <<args, fs, steps, idx, pbar, invoked, exc, retval, exit_code, argv, run, vm, vm0>>

ct_except_FileNotFoundError ==
    /\ pc = "except"
    /\ Handler(exc) = "FileNotFoundError"
    /\ log' = Append(log, Error(<<"File not found error: ">> \o ExcStr(exc)))
    /\ pc' = "return"
    /\ UNCHANGED <<args, fs, steps, idx, pbar, invoked, exc, retval, exit_code, argv, run, vm, vm0>>

\* mutant: the catch-all clause logs and re-raises
ct_except_Exception_reraise ==
    /\ pc = "except"
    /\ Handler(exc) = "Exception"
    /\ log' = Append(log, Error(<<"An unexpected error occurred: ">> \o ExcStr(exc)))
    /\ pc' = "raised"
    /\ UNCHANGED <<args, fs, steps, idx, pbar, invoked, exc, retval, exit_code, argv, run, vm, vm0>>

ct_except_Exception ==
    /\ pc = "except"
    /\ Handler(exc) = "Exception"
    /\ log' = Append(log, Error(<<"An unexpected error occurred: ">> \o ExcStr(exc)))
    /\ pc' = "return"
    /\ UNCHANGED <<args, fs, steps, idx, pbar, invoked, exc, retval, exit_code, argv, run, vm, vm0>>

\* no clause matches: the exception leaves create_template and main
ct_unhandled ==
    /\ pc = "except"
    /\ Handler(exc) = "unhandled"
    /\ pc' = "raised"
    /\ UNCHANGED <<args, fs, steps, idx, pbar, log, invoked, exc, retval, exit_code,
                    argv, run, vm, vm0>>

\* mutant: the success line is written after the try statement
ct_return_logs_success ==
    /\ pc = "return"
    /\ log' = Append(log, Info(<<"Template creation for VM ID ">> \o Str(args.vmid)
                                 \o <<" completed successfully">>))
    /\ retval' = "None"
    /\ pc' = "after_call"
    /\ UNCHANGED <<args, fs, steps, idx, pbar, invoked, exc, exit_code, argv, run, vm, vm0>>

\* the function body ends: create_template returns None
ct_return ==
    /\ pc = "return"
    /\ retval' = "None"
    /\ pc' = "after_call"
    /\ UNCHANGED <<args, fs, steps, idx, pbar, log, invoked, exc, exit_code, argv, run, vm, vm0>>

\* main returns: the interpreter exits with status 0
main_return ==
    /\ pc = "after_call"
    /\ pc' = "exited"
    /\ exit_code' = 0
    /\ UNCHANGED <<args, fs, steps, idx, pbar, log, invoked, exc, retval, argv, run, vm, vm0>>

\* an uncaught KeyboardInterrupt ends the interpreter (status 130)
main_uncaught ==
    /\ pc = "raised"
    /\ pc' = "exited"
    /\ exit_code' = 130
    /\ UNCHANGED <<args, fs, steps, idx, pbar, log, invoked, exc, retval, argv, run, vm, vm0>>

\* the same command line is run again, against the hypervisor as it was left
main_rerun ==
    /\ pc = "exited"
    /\ run < MaxRuns
    /\ run' = run + 1
    /\ vm0' = vm
    /\ args' = argv
    /\ pc' = "check_name"
    /\ steps' = <<>>
    /\ idx' = 0
    /\ pbar' = NoBar
    /\ log' = <<>>
    /\ invoked' = <<>>
    /\ exc' = NoExc
    /\ retval' = "unset"
    /\ exit_code' = -1
    /\ UNCHANGED <<fs, argv, vm>>

Next ==
    \/ main_check_name \/ main_abs_iso \/ main_check_iso \/ main_check_cinit
    \/ main_call
    \/ ct_build_steps \/ ct_tqdm \/ ct_for \/ ct_log_step \/ ct_check_call
    \/ ct_call_returns \/ ct_call_raises \/ ct_update \/ ct_log_success
    \/ ct_except_CalledProcessError \/ ct_except_FileNotFoundError
    \/ ct_except_Exception \/ ct_unhandled \/ ct_return
    \/ main_return \/ main_uncaught

Spec == Init /\ [][Next]_vars

\* runs repeated on one command line that passes the pre-checks
InitRerun ==
    /\ Init
    /\ args.name = <<"t", "m", "p", "l">>
    /\ args.vlan = 0
    /\ fs = Files

NextRerun == Next \/ main_rerun

SpecRerun == InitRerun /\ [][NextRerun]_vars

\* ===================================================== properties
\* vocabulary of the properties
Failed(k) == invoked[k].result \notin {"running", "ok"}
AnyFailed == \E k \in 1..Len(invoked) : Failed(k)
LastInvoked == invoked[Len(invoked)]
InvokedSteps == {invoked[k].step : k \in 1..Len(invoked)}
ErrorLines == {k \in 1..Len(log) : log[k].level = "ERROR"}
CommandFailedText == "An error occurred while creating the template: "
ExecutableMissingText == "File not found error: "
UnclassifiedFailureText == "An unexpected error occurred: "
SuccessText == "Template creation for VM ID "
Logged(text) == \E k \in 1..Len(log) : log[k].msg[1] = text
TableBuilt == steps # <<>>
HandlersDone == pc \in {"return", "after_call", "exited"}

DigitVal(c) == CHOOSE d \in 0..9 : Digits[d + 1] = c
RECURSIVE ParseNat(_)
ParseNat(t) == IF Len(t) = 0 THEN 0
               ELSE 10 * ParseNat(SubSeq(t, 1, Len(t) - 1)) + DigitVal(t[Len(t)])
ParseInt(t) == IF Len(t) > 0 /\ t[1] = "-" THEN 0 - ParseNat(Tail(t)) ELSE ParseNat(t)

\* C1: fail-fast.  Only the most recent invocation can have failed, the
\* invocations are of strictly increasing steps (no retry) and each is the
\* command of its step in the table (no compensating command), once an
\* invocation has failed the run is out of the loop, and from then on no
\* command is invoked any more.
C1_State ==
    /\ \A k \in 1..Len(invoked) :
          /\ Failed(k) => k = Len(invoked)
          /\ k > 1 => invoked[k].step > invoked[k - 1].step
          /\ invoked[k].cmd = steps[invoked[k].step].cmd
    /\ AnyFailed => pc \in {"except", "return", "raised", "after_call", "exited"}

C1_FailFast == [](C1_State) /\ [][AnyFailed => invoked' = invoked]_vars

\* a run that ended after a failure at a step that is not the last one
C1_Witness == pc = "exited" /\ AnyFailed /\ LastInvoked.step < Len(steps)

\* C2 as stated: when step k is the failing step the bar stands at k
C2_Original ==
    AnyFailed =>
        /\ pbar.n = LastInvoked.step
        /\ \A s \in InvokedSteps : s <= LastInvoked.step
        /\ (HandlersDone /\ LastInvoked.result = "CalledProcessError") =>
              /\ Cardinality(ErrorLines) = 1
              /\ \A k \in ErrorLines : log[k].msg[1] = CommandFailedText

\* C2 amended: when step k is the failing step no later step is invoked and
\* the bar stands at k - 1 (the failed step is not counted); a non-zero exit
\* is reported by exactly one error line, the CommandFailed one.
C2_ProgressAtFailure ==
    AnyFailed =>
        /\ pbar.n = LastInvoked.step - 1
        /\ \A s \in InvokedSteps : s <= LastInvoked.step
        /\ (HandlersDone /\ LastInvoked.result = "CalledProcessError") =>
              /\ Cardinality(ErrorLines) = 1
              /\ \A k \in ErrorLines : log[k].msg[1] = CommandFailedText

\* step 3 failed with a non-zero exit after steps 1 and 2 succeeded
C2_Witness ==
    /\ pc = "exited"
    /\ Len(invoked) = 3
    /\ LastInvoked.step = 3
    /\ LastInvoked.result = "CalledProcessError"
    /\ pbar.n = 2 /\ pbar.total = 7

\* C3: the table has seven entries, in the fixed order, whatever the
\* parameters; the first command is `qm create` and the last `qm template`.
C3_SevenSteps ==
    TableBuilt =>
        /\ Len(steps) = 7
        /\ [k \in 1..Len(steps) |-> steps[k].desc] =
              <<"Creating VM", "Configuring Network", "Setting ISO", "Configuring Boot",
                "Configuring Cloud-Init", "Setting Cloud-Init Customization",
                "Creating Template">>
        /\ steps[1].cmd[2] = <<"create">>
        /\ \A k \in 2..5 : steps[k].cmd[2] = <<"set">>
        /\ steps[7].cmd[2] = <<"template">>
        /\ pc \notin {"build_steps", "tqdm"} => pbar.total = 7

\* the table was built for a run without a snippet and with a tagged VLAN
C3_Witness == TableBuilt /\ args.cinit = <<>> /\ args.vlan # 0 /\ pc = "for"

\* C4: without a snippet the sixth slot is there with an empty command, it is
\* never invoked, the total stays 7 and the bar reaches 7 only when the loop
\* has gone past all seven slots; with a snippet the sixth command is the
\* --cicustom one naming the snippet, and a run that succeeds invoked it.
C4_NoOpSlot ==
    TableBuilt =>
        /\ ~TruthySeq(args.cinit) =>
              /\ Len(steps) = 7
              /\ steps[6].desc = "Setting Cloud-Init Customization"
              /\ steps[6].cmd = <<>>
              /\ 6 \notin InvokedSteps
              /\ pc \notin {"build_steps", "tqdm"} =>
                    /\ pbar.total = 7
                    /\ pbar.n = 7 => idx = 8
                    /\ (pc = "log_success" /\ ~AnyFailed) => (pbar.n = 7 /\ Len(invoked) = 6)
        /\ TruthySeq(args.cinit) =>
              /\ Len(steps[6].cmd) = 5
              /\ steps[6].cmd[4] = <<"--cicustom">>
              /\ steps[6].cmd[5] = <<"user=local:snippets/">> \o args.cinit
              /\ pc = "log_success" => \E k \in 1..Len(invoked) :
                                          invoked[k].step = 6 /\ invoked[k].cmd = steps[6].cmd

\* a run without a snippet in which every invoked command succeeded
C4_Witness ==
    /\ pc = "exited" /\ TableBuilt
    /\ args.cinit = <<>>
    /\ ~AnyFailed /\ pbar.n = 7 /\ Len(invoked) = 6

\* C5: the --net0 argument has no tag component when the VLAN is 0 and has
\* one, whose value reads back as the VLAN, otherwise; memory, cores and
\* --cpu host are in the same command in both cases.
TagAt(a) == {k \in 1..Len(a) : a[k] = ",tag="}

C5_VlanTag ==
    TableBuilt =>
        LET cmd == steps[2].cmd
            net0 == cmd[5]
        IN /\ cmd[4] = <<"--net0">>
           /\ net0[1] = "virtio,bridge=vmbr0"
           /\ args.vlan = 0 => (TagAt(net0) = {} /\ Len(net0) = 1)
           /\ args.vlan # 0 =>
                 /\ TagAt(net0) = {2}
                 /\ ParseInt(SubSeq(net0, 3, Len(net0))) = args.vlan
           /\ cmd[6] = <<"--memory">> /\ ParseInt(cmd[7]) = args.memory
           /\ cmd[8] = <<"--cores">> /\ ParseInt(cmd[9]) = args.cores
           /\ cmd[10] = <<"--cpu">> /\ cmd[11] = <<"host">>

\* the network step was invoked with a two-digit VLAN id
C5_Witness ==
    /\ \E k \in 1..Len(invoked) : invoked[k].step = 2 /\ invoked[k].result = "ok"
    /\ args.vlan >= 10

\* C6: the success line, naming the VM id, is written if and only if every
\* step went through without a failed invocation; the bar stands at 7 of 7
\* when it is written, and a run with a failed invocation never writes it.
SuccessLine == <<SuccessText>> \o Str(args.vmid) \o <<" completed successfully">>
SuccessLogged == \E k \in 1..Len(log) : log[k].msg = SuccessLine

C6_SuccessIff ==
    /\ SuccessLogged =>
          /\ ~AnyFailed
          /\ pbar.n = 7 /\ pbar.total = 7
          /\ \A i \in 1..7 : TruthySeq(steps[i].cmd) =>
                \E k \in 1..Len(invoked) : invoked[k].step = i /\ invoked[k].result = "ok"
          /\ Cardinality({k \in 1..Len(log) : log[k].msg[1] = SuccessText}) = 1
    /\ AnyFailed => ~Logged(SuccessText)
    /\ (pc = "exited" /\ TableBuilt /\ ~AnyFailed) => SuccessLogged

\* a run that ended with the success line written
C6_Witness == pc = "exited" /\ SuccessLogged /\ Len(invoked) = 7

\* C7 as stated: non-zero exit -> CommandFailed, not located or not
\* launched -> ExecutableMissing, anything else -> UnclassifiedFailure, and
\* every failed run writes exactly one of the three lines.
C7_Original ==
    (pc = "exited" /\ AnyFailed) =>
        /\ Cardinality(ErrorLines) = 1
        /\ \A k \in ErrorLines :
              log[k].msg[1] =
                 IF LastInvoked.result = "CalledProcessError" THEN CommandFailedText
                 ELSE IF LastInvoked.result \in {"FileNotFoundError", "PermissionError"}
                      THEN ExecutableMissingText
                 ELSE UnclassifiedFailureText

\* C7 amended: non-zero exit -> CommandFailed; executable not found ->
\* ExecutableMissing; every other Exception, a launch failure such as
\* permission denied included -> UnclassifiedFailure; a run whose failure is
\* an Exception writes exactly one error line, of exactly one of the three
\* kinds, and the three texts differ.  A failure that is no Exception
\* (KeyboardInterrupt) is not classified: no error line is written for it.
C7_Classification ==
    /\ Cardinality({CommandFailedText, ExecutableMissingText, UnclassifiedFailureText}) = 3
    /\ (pc \in {"return", "after_call", "raised", "exited"} /\ AnyFailed) =>
          IF LastInvoked.result = "KeyboardInterrupt"
          THEN ErrorLines = {}
          ELSE /\ Cardinality(ErrorLines) = 1
               /\ \A k \in ErrorLines :
                     /\ log[k].msg[1] =
                           IF LastInvoked.result = "CalledProcessError" THEN CommandFailedText
                           ELSE IF LastInvoked.result = "FileNotFoundError"
                                THEN ExecutableMissingText
                           ELSE UnclassifiedFailureText
                     /\ k = Len(log)

\* a launch failure other than "not found" ended the run as unclassified
C7_Witness ==
    /\ pc = "exited" /\ AnyFailed
    /\ LastInvoked.result = "PermissionError"
    /\ log[Len(log)].msg[1] = UnclassifiedFailureText

\* C8: for each of the three kinds the failure is absorbed: the exception
\* does not leave create_template, which returns None as a successful run
\* does, and main then ends with exit status 0, the status of a successful
\* run.
ClassifiedFailure ==
    AnyFailed /\ LastInvoked.result \in {"CalledProcessError", "FileNotFoundError",
                                         "PermissionError", "OSError"}

C8_Absorbed ==
    /\ ClassifiedFailure =>
          /\ pc # "raised"
          /\ pc \in {"after_call", "exited"} => retval = "None"
          /\ pc = "exited" => exit_code = 0
    /\ (pc = "exited" /\ SuccessLogged) => (retval = "None" /\ exit_code = 0)

\* a run whose command could not be started ended with exit status 0
C8_Witness ==
    /\ pc = "exited" /\ ClassifiedFailure
    /\ LastInvoked.result = "OSError"
    /\ retval = "None" /\ exit_code = 0

\* C9 as stated: every validation failure ends the process with a non-zero
\* exit status, create_template not called and no command invoked.
ValidationErrorTexts ==
    {"VM name contains spaces. Please use a name without spaces.",
     "The ISO file must be located in the current directory or '",
     "The Cloud-Init file '"}

ValidationFailed == \E k \in ErrorLines : log[k].msg[1] \in ValidationErrorTexts

C9_Original ==
    ValidationFailed =>
        /\ pc = "exited"
        /\ exit_code > 0
        /\ ~TableBuilt /\ retval = "unset"
        /\ invoked = <<>>

\* C10 as stated: the name create_template receives has no whitespace
\* character of any kind.
Whitespace == {" ", "\t", "\n", "\r", "\f"}
InCreateTemplate == pc \notin {"check_name", "abs_iso", "check_iso", "check_cinit", "call"}
                    /\ (pc = "exited" => TableBuilt)

C10_Original ==
    InCreateTemplate => \A k \in 1..Len(args.name) : args.name[k] \notin Whitespace

\* C10 amended: the name create_template receives has no space character
\* (U+0020), and a name with one never gets there; other whitespace, a tab
\* for one, is not looked for.
C10_NoSpace ==
    /\ InCreateTemplate => \A k \in 1..Len(args.name) : args.name[k] # " "
    /\ TableBuilt => \A k \in 1..Len(steps[1].cmd[5]) : steps[1].cmd[5][k] # " "
    /\ (\E k \in 1..Len(args.name) : args.name[k] = " ") =>
          pc \in {"check_name", "exited"} /\ invoked = <<>>

\* create_template was called with a name that has a tab in it
C10_Witness ==
    /\ TableBuilt /\ steps[1].cmd[5] = args.name
    /\ \E k \in 1..Len(args.name) : args.name[k] = "\t"
    /\ invoked # <<>>

\* C11: the ISO path create_template gets is the argument itself when
\* absolute, else the argument under the working directory, when a file is
\* there; otherwise it is the file of the same base name in the ISO storage
\* directory, when that one is there; otherwise create_template is not
\* called and the process exits with status 1.  So the path handed over is
\* absolute and names an existing file, it is what the --scsi0 argument
\* imports from, and a snippet name handed over names an existing file of
\* the snippets directory.
IsoFirst == IF argv.iso[1] = "/" THEN argv.iso ELSE <<"/", "root", "/">> \o argv.iso
IsoSecond == <<"/", "var", "/", "lib", "/", "vz", "/", "template", "/", "iso", "/",
               argv.iso[Len(argv.iso)]>>
SnippetPath == <<"/", "var", "/", "lib", "/", "vz", "/", "snippets", "/">> \o args.cinit

StepLine(i) == <<steps[i].desc, " for VM ID ">> \o Str(args.vmid)
StepLineIdx == {k \in 1..Len(log) : Len(log[k].msg) >= 2 /\ log[k].msg[2] = " for VM ID "}
InLoop == pc \in {"for", "log_step", "check_call", "wait", "update"}

C12_State ==
    /\ Cardinality(StepLineIdx) = Len(invoked) + (IF pc = "check_call" THEN 1 ELSE 0)
    /\ \A k \in 1..Len(invoked) :
          \E j \in StepLineIdx :
             /\ log[j].msg = StepLine(invoked[k].step)
             /\ Cardinality({i \in StepLineIdx : i < j}) = k - 1
    /\ TableBuilt =>
          \A i \in 1..Len(steps) :
             steps[i].cmd = <<>> => \A k \in 1..Len(log) : log[k].msg # StepLine(i)
    /\ InLoop =>
          /\ pbar.n = idx - 1
          /\ pc = "wait" => (LastInvoked.step = idx /\ LastInvoked.result = "running")
    /\ AnyFailed => pbar.n = Cardinality({k \in 1..Len(invoked) : invoked[k].result = "ok"})
                             + Cardinality({i \in 1..(LastInvoked.step - 1) : steps[i].cmd = <<>>})

C12_Invoke ==
    Len(invoked') > Len(invoked) =>
        /\ log' = log
        /\ log # <<>>
        /\ log[Len(log)].msg = StepLine(idx)
        /\ invoked'[Len(invoked')].step = idx

C12_Advance ==
    pbar'.n # pbar.n =>
        /\ pbar'.n = pbar.n + 1
        /\ idx' = idx + 1
        /\ \/ steps[idx].cmd = <<>>
           \/ /\ invoked # <<>>
              /\ LastInvoked.step = idx
              /\ LastInvoked.result = "ok"

C12_LogThenInvokeThenAdvance ==
    [](C12_State) /\ [][C12_Invoke /\ C12_Advance]_vars

\* the bar stands at 6 after five commands that returned and the no-op step,
\* the line of the seventh step is written and its command is running
C12_Witness ==
    /\ pc = "wait" /\ idx = 7
    /\ args.cinit = <<>>
    /\ pbar.n = 6 /\ Len(invoked) = 6
    /\ log[Len(log)].msg = StepLine(7)

\* C13: at every moment the commands invoked so far are the non-empty
\* commands of a prefix of the seven steps, in order and once each, all of
\* them but possibly the last having succeeded; `qm create` is the first
\* one, `qm template` comes only after every earlier command succeeded and
\* nothing follows it; the VM carries the effect of exactly the commands
\* that succeeded, in order, so what the steps before a failing one set up
\* stays in place, and no step ever takes an effect away.
RECURSIVE NonEmptyUpTo(_)
NonEmptyUpTo(i) ==
    IF i = 0 THEN <<>>
    ELSE NonEmptyUpTo(i - 1) \o (IF steps[i].cmd # <<>> THEN <<i>> ELSE <<>>)

Succeeded == SelectSeq(invoked, LAMBDA r : r.result = "ok")

C13_State ==
    TableBuilt =>
        /\ invoked # <<>> =>
              /\ [k \in 1..Len(invoked) |-> invoked[k].step] = NonEmptyUpTo(LastInvoked.step)
              /\ invoked[1].step = 1
              /\ invoked[1].cmd[2] = <<"create">>
        /\ \A k \in 1..Len(invoked) :
              /\ invoked[k].cmd = steps[invoked[k].step].cmd
              /\ invoked[k].cmd # <<>>
              /\ k < Len(invoked) => invoked[k].result = "ok"
              /\ invoked[k].cmd[2] = <<"template">> => (invoked[k].step = 7 /\ k = Len(invoked))
        /\ vm.applied = [k \in 1..Len(Succeeded) |-> Succeeded[k].cmd]
        /\ vm.exists = (Len(Succeeded) > 0)
        /\ vm.template = (\E k \in 1..Len(invoked) : invoked[k].step = 7 /\ invoked[k].result = "ok")

C13_NotUndone ==
    /\ Len(vm'.applied) >= Len(vm.applied)
    /\ SubSeq(vm'.applied, 1, Len(vm.applied)) = vm.applied
    /\ vm.exists => vm'.exists

C13_PrefixOrdering == [](C13_State) /\ [][C13_NotUndone]_vars

\* step 4 failed: the run is over and the VM has what steps 1 to 3 set up
C13_Witness ==
    /\ pc = "exited" /\ AnyFailed
    /\ LastInvoked.step = 4
    /\ Len(vm.applied) = 3
    /\ vm.applied[3] = steps[3].cmd

\* C14 as stated: the CommandFailed message has the description of the
\* failed step, the VM id and the exit status in it.
Contains(m, t) == \E i \in 1..(Len(m) - Len(t) + 1) : SubSeq(m, i, i + Len(t) - 1) = t
EndsWith(m, t) == Len(m) >= Len(t) /\ SubSeq(m, Len(m) - Len(t) + 1, Len(m)) = t
NonZeroExitReported == HandlersDone /\ AnyFailed /\ LastInvoked.result = "CalledProcessError"
StatusTail == <<"' returned non-zero exit status ">> \o Str(exc.status) \o <<".">>

C14_Original ==
    NonZeroExitReported =>
        LET m == log[Len(log)].msg IN
        /\ m[1] = CommandFailedText
        /\ Contains(m, <<steps[LastInvoked.step].desc>>)
        /\ Contains(m, Str(args.vmid))
        /\ EndsWith(m, StatusTail)

\* C14 amended: the CommandFailed message has the command that failed, VM id
\* included, and the exit status in it, and not the description of the step;
\* the description and the VM id are in the line written just before it.
C14_FailureMessage ==
    NonZeroExitReported =>
        LET m == log[Len(log)].msg IN
        /\ log[Len(log)].level = "ERROR"
        /\ m[1] = CommandFailedText
        /\ Contains(m, Flatten(LastInvoked.cmd))
        /\ Contains(m, <<" ">> \o Str(args.vmid))
        /\ exc.status \in 1..255
        /\ EndsWith(m, StatusTail)
        /\ \A i \in 1..Len(steps) : ~Contains(m, <<steps[i].desc>>)
        /\ Len(log) >= 2
        /\ log[Len(log) - 1].msg = StepLine(LastInvoked.step)

\* `qm set ... --scsi0` exited with status 2 and the failure was reported
C14_Witness ==
    /\ NonZeroExitReported
    /\ LastInvoked.step = 3
    /\ exc.status = 2
    /\ pc = "exited"

\* C15: a run started while the VM of the id is there, left by an earlier run
\* of the same command line that got past step 1, invokes `qm create` all
\* the same (the VM is not looked for beforehand), that command does not
\* succeed, no command of steps 2 to 7 is invoked, the bar stays at 0, the
\* success line is not written, the VM stays exactly as the earlier run left
\* it (nothing is cleaned up), and the non-zero exit of `qm create` is
\* reported as CommandFailed.
RunOnExistingVm == run >= 2 /\ vm0.exists

C15_State ==
    RunOnExistingVm =>
        /\ vm = vm0
        /\ InvokedSteps \subseteq {1}
        /\ Len(invoked) <= 1
        /\ \A k \in 1..Len(invoked) :
              /\ invoked[k].result # "ok"
              /\ invoked[k].cmd = vm0.applied[1]
              /\ invoked[k].cmd[2] = <<"create">>
        /\ pbar.n = 0
        /\ ~Logged(SuccessText)
        /\ pc \in {"return", "after_call", "raised", "exited"} =>
              (Len(invoked) = 1 /\ AnyFailed)
        /\ (HandlersDone /\ AnyFailed /\ LastInvoked.result = "CalledProcessError") =>
              /\ Cardinality(ErrorLines) = 1
              /\ \A k \in ErrorLines : log[k].msg[1] = CommandFailedText

C15_VmKept == (run' = run /\ RunOnExistingVm) => vm' = vm

C15_NotIdempotent == [](C15_State) /\ [][C15_VmKept]_vars

\* the first run failed at a step after the first one, the second run ended
\* on the non-zero exit of `qm create`
C15_Witness ==
    /\ run = 2 /\ pc = "exited"
    /\ vm0.exists /\ ~vm0.template
    /\ Len(vm0.applied) >= 2
    /\ LastInvoked.step = 1
    /\ LastInvoked.result = "CalledProcessError"
    /\ log[Len(log)].msg[1] = CommandFailedText

\* C16: every command invoked is a `qm` command whose target, the argument
\* after the subcommand, is the VM id create_template was given, and no
\* argument of it is another VM id; a run that succeeds makes 7 invocations
\* with a snippet and 6 without, a run that fails makes no more invocations
\* than the position of the failing step.
C16_OneVmCounted ==
    /\ \A k \in 1..Len(invoked) :
          LET cmd == invoked[k].cmd IN
          /\ cmd[1] = <<"qm">>
          /\ cmd[2] \in {<<"create">>, <<"set">>, <<"template">>}
          /\ ParseInt(cmd[3]) = args.vmid
          /\ args.vmid = argv.vmid
          /\ \A other \in VmIds \ {args.vmid} : \A j \in 1..Len(cmd) : cmd[j] # Str(other)
    /\ (pc \in {"return", "after_call", "exited"} /\ TableBuilt /\ ~AnyFailed) =>
          Len(invoked) = IF args.cinit # <<>> THEN 7 ELSE 6
    /\ AnyFailed =>
          /\ Len(invoked) <= LastInvoked.step
          /\ Len(invoked) >= LastInvoked.step - 1

\* a run with a snippet went through: seven invocations, the last one
\* `qm template` on the VM id
C16_Witness ==
    /\ pc = "exited" /\ ~AnyFailed
    /\ args.cinit # <<>>
    /\ Len(invoked) = 7
    /\ invoked[7].cmd = <<Lit("qm"), Lit("template"), Str(argv.vmid)>>
====
